---- MODULE Spec2Model ----
(***************************************************************************)
(* Model of crawl.py: main() consumes the crawler's result stream one      *)
(* result at a time; every successful result is saved as a Markdown page   *)
(* file, read back, summarised by the remote completion service and its    *)
(* summary block is appended to summaries.md.                              *)
(*                                                                         *)
(* Text is a sequence of pieces: the literals of the source's format       *)
(* strings are single pieces, data (urls, markdown, summary and error      *)
(* text, decimal numbers, file names) are sequences of one-character       *)
(* pieces, and every line feed is a piece of its own.                      *)
(***************************************************************************)
EXTENDS Integers, Sequences, FiniteSets, TLC

VARIABLES
    pc,               \* position of main()
    fs,               \* the file system: path -> content
    log,              \* lines printed to standard output
    pages_crawled,    \* main(): pages_crawled
    result,           \* main(): result, the crawl result being processed
    markdown_content, \* main(): markdown_content
    file_path,        \* main(): file_path, returned by save_markdown
    content,          \* main(): content, the page file read back
    request,          \* the prompt of the last request sent to the completion service
    response,         \* what the completion service answered to the last call
    summary,          \* main(): summary, returned by summarize_content
    summarize_calls,  \* number of calls of summarize_content
    consumed,         \* the results retrieved from crawl_generator so far
    GROQ_API_KEY,     \* the API key read from the environment at import
    exc               \* the uncaught exception that ended the run, if any

vars == <<pc, fs, log, pages_crawled, result, markdown_content, file_path,
          content, request, response, summary, summarize_calls, consumed,
          GROQ_API_KEY, exc>>

----------------------------------------------------------------------------
\* Bounds of the model

\* the crawler yields at most this many results in one run
MaxResults == 3
\* page numbers for which the file-name function is compared pairwise
NameRange == 12

----------------------------------------------------------------------------
\* Text helpers

NL == "\n"

None == <<"<None>">>

Truthy(v) == v # None /\ v # <<>>

Min(S) == CHOOSE x \in S : \A y \in S : x <= y

IsPrefix(p, s) == Len(p) <= Len(s) /\ SubSeq(s, 1, Len(p)) = p

Prefixes(s) == { SubSeq(s, 1, k) : k \in 0..Len(s) }

Digit(d) == <<"0", "1", "2", "3", "4", "5", "6", "7", "8", "9">>[d + 1]

RECURSIVE Str(_)
Str(n) == IF n < 10 THEN <<Digit(n)>> ELSE Str(n \div 10) \o <<Digit(n % 10)>>

Replace(s, old, new) == [i \in 1..Len(s) |-> IF s[i] = old THEN new ELSE s[i]]

Whitespace == {" ", NL, "\t"}

RECURSIVE LStrip(_)
LStrip(s) == IF s # <<>> /\ Head(s) \in Whitespace THEN LStrip(Tail(s)) ELSE s

RECURSIVE RStrip(_)
RStrip(s) ==
    IF s # <<>> /\ s[Len(s)] \in Whitespace
    THEN RStrip(SubSeq(s, 1, Len(s) - 1))
    ELSE s

Strip(s) == RStrip(LStrip(s))

----------------------------------------------------------------------------
\* urlparse(url).netloc

Letters == {"a", "b", "d", "e", "h", "i", "m", "r", "s", "u"}
Digits == {"0", "1", "2", "3", "4", "5", "6", "7", "8", "9"}
SchemeChars == Letters \cup Digits \cup {"+", "-", "."}

ColonAt(url) ==
    IF \E i \in 1..Len(url) : url[i] = ":"
    THEN Min({i \in 1..Len(url) : url[i] = ":"})
    ELSE 0

HasScheme(url) ==
    /\ ColonAt(url) > 1
    /\ url[1] \in Letters
    /\ \A j \in 1..(ColonAt(url) - 1) : url[j] \in SchemeChars

AfterScheme(url) ==
    IF HasScheme(url) THEN SubSeq(url, ColonAt(url) + 1, Len(url)) ELSE url

Netloc(url) ==
    LET rest == AfterScheme(url)
        ends == {i \in 3..Len(rest) : rest[i] \in {"/", "?", "#"}} \cup {Len(rest) + 1}
    IN  IF Len(rest) >= 2 /\ rest[1] = "/" /\ rest[2] = "/"
        THEN SubSeq(rest, 3, Min(ends) - 1)
        ELSE <<>>

----------------------------------------------------------------------------
\* Configuration

OUTPUT_DIR == <<"crawled_markdown">>

PathJoin(dir, name) ==
    IF name # <<>> /\ name[1] = "/" THEN name ELSE dir \o <<"/">> \o name

SUMMARY_FILE ==
    PathJoin(OUTPUT_DIR, <<"s", "u", "m", "m", "a", "r", "i", "e", "s", ".", "m", "d">>)

SummaryHeader == <<"# Crawl Summaries", NL, NL>>

----------------------------------------------------------------------------
\* What the environment can deliver

UrlA == <<"h", ":", "/", "/", "a", "/">>
UrlAPage == <<"h", ":", "/", "/", "a", "/", "b">>
UrlAPort == <<"h", ":", "/", "/", "a", ":", "1", "/">>
UrlAUnderscore == <<"h", ":", "/", "/", "a", "_", "1">>
UrlSummaries == <<"h", ":", "/", "/", "s", "u", "m", "m", "a", "r", "i", "e", "s", "/">>
UrlBad == <<"h", ":", "/", "/", "b", "/">>
UrlNoHost == <<"a", "/", "b">>

Urls == {UrlA, UrlAPage, UrlAPort, UrlAUnderscore, UrlSummaries, UrlBad, UrlNoHost}

CrawlResult(url, success, fit, raw, depth, err) ==
    [url |-> url, success |-> success, fit_markdown |-> fit, raw_markdown |-> raw,
     depth |-> depth, error_message |-> err]

\* the results crawl_generator can yield
Results ==
    { CrawlResult(UrlA, TRUE, <<"x">>, <<"x", "y">>, 0, None),
      CrawlResult(UrlAPage, TRUE, <<>>, <<"y">>, 1, None),
      CrawlResult(UrlAPort, TRUE, None, <<>>, 1, None),
      CrawlResult(UrlAUnderscore, TRUE, None, <<"y">>, 2, None),
      CrawlResult(UrlSummaries, TRUE, <<"x">>, <<"x">>, 2, None),
      CrawlResult(UrlNoHost, TRUE, None, None, 1, None),
      CrawlResult(UrlBad, FALSE, None, None, 1, <<"t">>) }

NoResult == CrawlResult(<<>>, FALSE, None, None, 0, None)

\* the texts the completion service can answer with
Responses == { <<" ", "s", " ", "t", NL>> }

\* str(e) of the errors the completion call can raise
Errors == { <<"e">> }

\* str(e) of the error raised when no API key is configured
MissingKeyError == <<"k">>

NoResponse == [kind |-> "none", text |-> <<>>]

\* OUTPUT_DIR as a previous run may have left it
StaleFS ==
    (SUMMARY_FILE :> <<"o", NL>>)
      @@ (PathJoin(OUTPUT_DIR, <<"a", "_", "1", ".", "m", "d">>) :> <<"o">>)

EmptyFS == [p \in {} |-> <<>>]

----------------------------------------------------------------------------
\* save_markdown

\* save_markdown naming the file after the host alone
SafeFilenameHostOnly(url, page_number) ==
    Replace(Replace(Netloc(url) \o <<".", "m", "d">>, "/", "_"), ":", "_")

SafeFilename(url, page_number) ==
    Replace(Replace(Netloc(url) \o <<"_">> \o Str(page_number) \o <<".", "m", "d">>,
                    "/", "_"),
            ":", "_")

FilePath(url, page_number) == PathJoin(OUTPUT_DIR, SafeFilename(url, page_number))

\* open(path, "w") followed by write(data)
WriteFile(f, path, data) == [p \in DOMAIN f \cup {path} |-> IF p = path THEN data ELSE f[p]]

\* append_summary opening the file with "w"
AppendFileTruncating(f, path, data) == WriteFile(f, path, data)

\* open(path, "a") followed by write(data)
AppendFile(f, path, data) ==
    [p \in DOMAIN f \cup {path} |->
        IF p = path THEN (IF path \in DOMAIN f THEN f[path] ELSE <<>>) \o data ELSE f[p]]

SavedMessage(url, path) == <<"Saved Markdown for ">> \o url \o <<" to ">> \o path

----------------------------------------------------------------------------
\* summarize_content

SummaryFor(url) == <<"### Summary for ">> \o url \o <<NL>>

Prompt(text) ==
    <<"Summarize the following content in 2-3 sentences, capturing the main points:", NL, NL>>
      \o text \o <<NL, NL, "Provide a concise summary suitable for a report.">>

SummaryBlock(url, text) == SummaryFor(url) \o Strip(text) \o <<NL, NL>>

FailureBlock(url, err) ==
    SummaryFor(url) \o <<"Failed to generate summary: ">> \o err \o <<NL, NL>>

\* what the try block of summarize_content can end with
Outcomes(key) ==
    IF key = None
    THEN { [kind |-> "raise", text |-> MissingKeyError] }
    ELSE { [kind |-> "ok", text |-> t] : t \in Responses }
           \cup { [kind |-> "raise", text |-> e] : e \in Errors }

\* summarize_content returning the error without the header of the page
SummarizeContentBareError(url, outcome) ==
    IF outcome.kind = "ok"
    THEN SummaryBlock(url, outcome.text)
    ELSE <<"Failed to generate summary: ">> \o outcome.text \o <<NL, NL>>

\* summarize_content dropping str(e) from the placeholder
SummarizeContentNoErrorText(url, outcome) ==
    IF outcome.kind = "ok"
    THEN SummaryBlock(url, outcome.text)
    ELSE SummaryFor(url) \o <<"Failed to generate summary: ">> \o <<NL, NL>>

SummarizeContent(url, outcome) ==
    IF outcome.kind = "ok"
    THEN SummaryBlock(url, outcome.text)
    ELSE FailureBlock(url, outcome.text)

----------------------------------------------------------------------------
\* main

ChooseMarkdown(r) == IF Truthy(r.fit_markdown) THEN r.fit_markdown ELSE r.raw_markdown

\* main() counting every result, failed ones too
PagesAfterAlways(r, n) == n + 1

PagesAfter(r, n) == IF r.success THEN n + 1 ELSE n

OkMessage(r, md) ==
    <<"[OK] Crawled: ">> \o r.url \o <<" (Depth: ">> \o Str(r.depth)
      \o <<", Markdown Length: ">> \o Str(Len(md)) \o <<")">>

FailMessage(r) == <<"[FAIL] URL: ">> \o r.url \o <<", Error: ">> \o r.error_message

TotalPrefix == <<NL, "Deep crawl finished. Total pages successfully crawled: ">>

\* main() reporting the number of results retrieved
TotalMessageConsumed(n) == TotalPrefix \o Str(Len(consumed))

TotalMessage(n) == TotalPrefix \o Str(n)

SummariesMessage == <<"Summaries saved to ">> \o SUMMARY_FILE

NoExc == [type |-> "none", at |-> "none"]

\* main() swallowing the exception and going on with the next result
UncaughtContinues == "loop"

\* where control goes when an exception leaves main(): nothing catches it
Uncaught == "crashed"

\* summarize_content without its except block
AfterSummarizeUncaught(outcome) == IF outcome.kind = "raise" THEN Uncaught ELSE "append"

\* where summarize_content leaves main(): the try block and the except
\* block both return a block, so main() goes on to append_summary
AfterSummarize(outcome) == "append"

\* main() opening SUMMARY_FILE with "a"
InitModeAppend == "a"

\* the mode main() opens SUMMARY_FILE with to initialise it
InitMode == "w"

OpenAndWrite(f, path, mode, data) ==
    IF mode = "w" THEN WriteFile(f, path, data) ELSE AppendFile(f, path, data)

Raise(type) ==
    /\ exc' = [type |-> type, at |-> pc]
    /\ pc' = Uncaught

Init ==
    /\ pc = "init"
    /\ fs \in {EmptyFS, StaleFS}
    /\ log = <<>>
    /\ pages_crawled = 0
    /\ result = NoResult
    /\ markdown_content = None
    /\ file_path = <<>>
    /\ content = <<>>
    /\ request = <<>>
    /\ response = NoResponse
    /\ summary = <<>>
    /\ summarize_calls = 0
    /\ consumed = <<>>
    /\ GROQ_API_KEY \in {None, <<"k">>}
    /\ exc = NoExc

\* lines 68-69: open(SUMMARY_FILE, "w") and write the header
InitSummaryDocument ==
    /\ pc = "init"
    /\ fs' = OpenAndWrite(fs, SUMMARY_FILE, InitMode, SummaryHeader)
    /\ pc' = "crawl"
    /\ UNCHANGED <<request, log, pages_crawled, result, markdown_content, file_path, content,
                   response, summary, summarize_calls, consumed, GROQ_API_KEY, exc>>

\* lines 68-69 with an I/O failure: the open fails, or some of the header is written
InitSummaryDocumentFails ==
    /\ pc = "init"
    /\ \/ fs' = fs
       \/ \E part \in Prefixes(SummaryHeader) :
              fs' = OpenAndWrite(fs, SUMMARY_FILE, InitMode, part)
    /\ Raise("OSError")
    /\ UNCHANGED <<request, log, pages_crawled, result, markdown_content, file_path, content,
                   response, summary, summarize_calls, consumed, GROQ_API_KEY>>

\* lines 72-102: configure, enter the crawler, request the deep crawl
StartCrawl ==
    /\ pc = "crawl"
    /\ pc' = "loop"
    /\ UNCHANGED <<request, fs, log, pages_crawled, result, markdown_content, file_path, content,
                   response, summary, summarize_calls, consumed, GROQ_API_KEY, exc>>

\* lines 94-106: the crawler raises instead of returning or yielding
CrawlerRaises ==
    /\ pc \in {"crawl", "loop"}
    /\ Raise("CrawlError")
    /\ UNCHANGED <<request, fs, log, pages_crawled, result, markdown_content, file_path, content,
                   response, summary, summarize_calls, consumed, GROQ_API_KEY>>

\* lines 106-110 and 30-32: a successful result arrives
RetrieveSuccess ==
    /\ pc = "loop"
    /\ Len(consumed) < MaxResults
    /\ \E r \in Results :
        /\ r.success
        /\ result' = r
        /\ consumed' = Append(consumed, r)
        /\ pages_crawled' = PagesAfter(r, pages_crawled)
        /\ markdown_content' = ChooseMarkdown(r)
        /\ file_path' = FilePath(r.url, pages_crawled')
    /\ pc' = "save"
    /\ UNCHANGED <<request, fs, log, content, response, summary, summarize_calls,
                   GROQ_API_KEY, exc>>

\* lines 106-107 and 121-122: a failed result arrives and is logged
RetrieveFailed ==
    /\ pc = "loop"
    /\ Len(consumed) < MaxResults
    /\ \E r \in Results :
        /\ ~r.success
        /\ result' = r
        /\ consumed' = Append(consumed, r)
        /\ pages_crawled' = PagesAfter(r, pages_crawled)
        /\ log' = Append(log, FailMessage(r))
    /\ pc' = "loop"
    /\ UNCHANGED <<request, fs, markdown_content, file_path, content, response, summary,
                   summarize_calls, GROQ_API_KEY, exc>>

\* lines 34-37: the page file is written
SaveMarkdown ==
    /\ pc = "save"
    /\ markdown_content # None
    /\ fs' = WriteFile(fs, file_path, markdown_content)
    /\ log' = Append(log, SavedMessage(result.url, file_path))
    /\ pc' = "read"
    /\ UNCHANGED <<request, pages_crawled, result, markdown_content, file_path, content,
                   response, summary, summarize_calls, consumed, GROQ_API_KEY, exc>>

\* lines 34-35 with markdown_content None: the file is opened, write(None) raises
SaveMarkdownNone ==
    /\ pc = "save"
    /\ markdown_content = None
    /\ fs' = WriteFile(fs, file_path, <<>>)
    /\ Raise("TypeError")
    /\ UNCHANGED <<request, log, pages_crawled, result, markdown_content, file_path, content,
                   response, summary, summarize_calls, consumed, GROQ_API_KEY>>

\* lines 34-35 with an I/O failure: the open fails, or some of the content is written
SaveMarkdownFails ==
    /\ pc = "save"
    /\ \/ fs' = fs
       \/ \E part \in (IF markdown_content = None THEN {<<>>} ELSE Prefixes(markdown_content)) :
              fs' = WriteFile(fs, file_path, part)
    /\ Raise("OSError")
    /\ UNCHANGED <<request, log, pages_crawled, result, markdown_content, file_path, content,
                   response, summary, summarize_calls, consumed, GROQ_API_KEY>>

\* lines 113-114: the page file is read back
ReadBack ==
    /\ pc = "read"
    /\ file_path \in DOMAIN fs
    /\ content' = fs[file_path]
    /\ pc' = "summarize"
    /\ UNCHANGED <<request, fs, log, pages_crawled, result, markdown_content, file_path,
                   response, summary, summarize_calls, consumed, GROQ_API_KEY, exc>>

\* lines 113-114 with an I/O failure
ReadBackFails ==
    /\ pc = "read"
    /\ Raise("OSError")
    /\ UNCHANGED <<request, fs, log, pages_crawled, result, markdown_content, file_path, content,
                   response, summary, summarize_calls, consumed, GROQ_API_KEY>>

\* lines 115 and 39-55: the summary block is built, from the answer or from the
\* error; without an API key the client cannot be built and no request is sent
Summarize ==
    /\ pc = "summarize"
    /\ \E outcome \in Outcomes(GROQ_API_KEY) :
        /\ response' = outcome
        /\ summary' = SummarizeContent(result.url, outcome)
        /\ pc' = AfterSummarize(outcome)
    /\ request' = IF GROQ_API_KEY = None THEN request ELSE Prompt(content)
    /\ summarize_calls' = summarize_calls + 1
    /\ UNCHANGED <<fs, log, pages_crawled, result, markdown_content, file_path, content,
                   consumed, GROQ_API_KEY, exc>>

\* lines 116-120 and 59-60: the block is appended and the page is logged
AppendSummary ==
    /\ pc = "append"
    /\ fs' = AppendFile(fs, SUMMARY_FILE, summary)
    /\ log' = Append(log, OkMessage(result, markdown_content))
    /\ pc' = "loop"
    /\ UNCHANGED <<request, pages_crawled, result, markdown_content, file_path, content,
                   response, summary, summarize_calls, consumed, GROQ_API_KEY, exc>>

\* lines 59-60 with an I/O failure: the open fails, or some of the block is written
AppendSummaryFails ==
    /\ pc = "append"
    /\ \/ fs' = fs
       \/ \E part \in Prefixes(summary) : fs' = AppendFile(fs, SUMMARY_FILE, part)
    /\ Raise("OSError")
    /\ UNCHANGED <<request, log, pages_crawled, result, markdown_content, file_path, content,
                   response, summary, summarize_calls, consumed, GROQ_API_KEY>>

\* lines 106 and 124-125: the sequence is exhausted, the totals are logged
Finalize ==
    /\ pc = "loop"
    /\ log' = log \o <<TotalMessage(pages_crawled), SummariesMessage>>
    /\ pc' = "done"
    /\ UNCHANGED <<request, fs, pages_crawled, result, markdown_content, file_path, content,
                   response, summary, summarize_calls, consumed, GROQ_API_KEY, exc>>

Next ==
    \/ InitSummaryDocument
    \/ InitSummaryDocumentFails
    \/ StartCrawl
    \/ CrawlerRaises
    \/ RetrieveSuccess
    \/ RetrieveFailed
    \/ SaveMarkdown
    \/ SaveMarkdownNone
    \/ SaveMarkdownFails
    \/ ReadBack
    \/ ReadBackFails
    \/ Summarize
    \/ AppendSummary
    \/ AppendSummaryFails
    \/ Finalize

Spec == Init /\ [][Next]_vars

----------------------------------------------------------------------------
\* Vocabulary of the properties

IsSuccess(r) == r.success

\* the successful results retrieved so far, in arrival order
Successes == SelectSeq(consumed, IsSuccess)

\* main() has written the header of the summary document
Initialised == pc # "init" /\ exc.at # "init"

InIteration == {"save", "read", "summarize", "append"}

\* the number of successful results whose page file has been written
Saved ==
    IF pc = "save" \/ exc.at = "save" THEN Len(Successes) - 1 ELSE Len(Successes)

\* the number of successful results whose iteration has run to its end
Completed ==
    IF pc \in InIteration \/ exc.at \in InIteration
    THEN Len(Successes) - 1
    ELSE Len(Successes)

SummaryText == fs[SUMMARY_FILE]

AfterHeader(text) == SubSeq(text, Len(SummaryHeader) + 1, Len(text))

RECURSIVE SplitBlocks(_)
\* a text cut in front of every "### Summary for "
SplitBlocks(t) ==
    IF t = <<>>
    THEN <<>>
    ELSE LET later == {i \in 2..Len(t) : t[i] = "### Summary for "}
             end == IF later = {} THEN Len(t) ELSE Min(later) - 1
         IN  <<SubSeq(t, 1, end)>> \o SplitBlocks(SubSeq(t, end + 1, Len(t)))

\* the summary blocks of summaries.md
Blocks == SplitBlocks(AfterHeader(SummaryText))

FirstLine(b) ==
    LET nls == {i \in 1..Len(b) : b[i] = NL}
    IN  IF nls = {} THEN b ELSE SubSeq(b, 1, Min(nls) - 1)

IsFailureBlock(b) == \E i \in 1..Len(b) : b[i] = "Failed to generate summary: "

RECURSIVE PathsOf(_, _)
\* the paths of the page files of the first k of the successful results s
PathsOf(s, k) ==
    IF k = 0 THEN <<>> ELSE Append(PathsOf(s, k - 1), FilePath(s[k].url, k))

\* the page files the run has been asked to write so far
PagePaths == { FilePath(Successes[k].url, k) : k \in 1..Len(Successes) }

\* a line of the log that reports the final count
IsTotalLine(m) == IsPrefix(TotalPrefix, m)

----------------------------------------------------------------------------
\* C1: when main() finishes, every successful result has exactly one page
\* file of its own and exactly one block in summaries.md, in arrival order,
\* and the first line of that block is "### Summary for <url>" with the url
\* of that result, whether the summarizer answered or raised.
C1_OneFileAndOneBlockPerSuccess ==
    pc = "done" =>
        /\ Cardinality(PagePaths) = Len(Successes)
        /\ PagePaths \subseteq DOMAIN fs
        /\ SUMMARY_FILE \notin PagePaths
        /\ DOMAIN fs \subseteq PagePaths \cup {SUMMARY_FILE} \cup DOMAIN StaleFS
        /\ IsPrefix(SummaryHeader, SummaryText)
        /\ Len(Blocks) = Len(Successes)
        /\ \A k \in 1..Len(Successes) :
              FirstLine(Blocks[k]) = <<"### Summary for ">> \o Successes[k].url

\* two pages of one host, one summarised and one whose summarizer raised
C1_Witness ==
    /\ pc = "done"
    /\ Len(Successes) = 2
    /\ Successes[1].url = UrlA
    /\ Successes[2].url = UrlAPage
    /\ IsFailureBlock(Blocks[1])
    /\ ~IsFailureBlock(Blocks[2])

\* C2: retrieving a failed result changes no file (no page file, not
\* summaries.md), does not advance pages_crawled, calls the summarizer not at
\* all, and leaves main() at the head of the loop, ready for the next result.
C2_FailedResultChangesNothing ==
    [][(consumed' # consumed /\ ~consumed'[Len(consumed')].success) =>
          /\ fs' = fs
          /\ pages_crawled' = pages_crawled
          /\ summarize_calls' = summarize_calls
          /\ exc' = exc
          /\ pc' = "loop"]_vars

\* a failed result was processed after a successful one, and one more followed
C2_Witness ==
    /\ Len(consumed) = 3
    /\ consumed[1].success
    /\ ~consumed[2].success
    /\ consumed[3].success
    /\ pages_crawled = 2
    /\ pc = "done"

\* C3: once main() has initialised the summary document, summaries.md
\* exists and begins with "# Crawl Summaries\n\n" in every later state,
\* whatever was saved or appended since, and whatever a previous run left.
C3_HeaderStays ==
    Initialised => SUMMARY_FILE \in DOMAIN fs /\ IsPrefix(SummaryHeader, SummaryText)

\* a page of the host "summaries" was saved and two blocks were appended
C3_Witness ==
    /\ pc = "done"
    /\ Len(Successes) = 2
    /\ Successes[1].url = UrlSummaries
    /\ Len(Blocks) = 2

\* save_markdown gives different paths to different page numbers, whatever
\* the two urls
NamesDiffer ==
    \A u1 \in Urls, u2 \in Urls :
        \A n1 \in 1..NameRange, n2 \in 1..NameRange :
            n1 # n2 => FilePath(u1, n1) # FilePath(u2, n2)

\* C4: two successful results of a run are saved under different paths,
\* whatever their hosts, so every page file written in the run still holds
\* the content it was written with. (NamesDiffer reads no variable: it is
\* evaluated in the states before the first step only.)
C4_NoPageOverwritten ==
    /\ pc = "init" => NamesDiffer
    /\ LET succ == Successes
           path == PathsOf(succ, Len(succ))
       IN  /\ \A i \in 1..Len(succ), j \in 1..Len(succ) : i # j => path[i] # path[j]
           /\ \A k \in 1..Saved :
                 path[k] \in DOMAIN fs /\ fs[path[k]] = ChooseMarkdown(succ[k])

\* three saved pages: a host with a port, a host with an underscore and a
\* digit, and the first host again
C4_Witness ==
    /\ pc = "done"
    /\ Len(Successes) = 3
    /\ Successes[1].url = UrlAPort
    /\ Successes[2].url = UrlAUnderscore
    /\ Successes[3].url = UrlAPort

\* C5: when the completion call raises, summarize_content returns the
\* block "### Summary for <url>\nFailed to generate summary: <error text>\n\n"
\* for the url of the page; main() then appends exactly that block to
\* summaries.md and returns to the head of the loop, unless the append
\* itself fails with an I/O error.
C5_SummarizerErrorBecomesBlock ==
    [][/\ (pc = "summarize" /\ response'.kind = "raise") =>
              /\ pc' = "append"
              /\ exc' = NoExc
              /\ summary' = SummaryFor(result.url)
                              \o <<"Failed to generate summary: ">> \o response'.text
                              \o <<NL, NL>>
       /\ (pc = "append" /\ response.kind = "raise") =>
              \/ exc'.type = "OSError"
              \/ /\ fs'[SUMMARY_FILE] = fs[SUMMARY_FILE] \o summary
                 /\ pc' = "loop"
                 /\ exc' = NoExc]_vars

\* with an API key set, the summarizer raised for the first page and the
\* second page was still processed and summarised
C5_Witness ==
    /\ pc = "done"
    /\ GROQ_API_KEY # None
    /\ Len(Successes) = 2
    /\ Len(Blocks) = 2
    /\ Blocks[1] = FailureBlock(Successes[1].url, <<"e">>)
    /\ ~IsFailureBlock(Blocks[2])

\* the blocks summarize_content can return for a url
PossibleBlocks(url) ==
    { SummaryFor(url) \o body \o <<NL, NL>> :
        body \in { Strip(t) : t \in Responses }
                   \cup { <<"Failed to generate summary: ">> \o e :
                            e \in Errors \cup {MissingKeyError} } }

\* C6: the block of a successful result is in summaries.md before the next
\* result is retrieved: whenever main() is at the head of the loop or has
\* finished, summaries.md holds the header and then exactly one block per
\* successful result retrieved, in arrival order; while a result is being
\* processed it holds the blocks of all successful results before it and
\* nothing else (after a failed append, at most a part of one more block).
C6_BlocksInArrivalOrder ==
    Initialised =>
        LET blocks == Blocks
            succ == Successes
        IN  /\ IsPrefix(SummaryHeader, SummaryText)
            /\ Len(blocks) >= Completed
            /\ exc.at # "append" => Len(blocks) = Completed
            /\ exc.at = "append" => Len(blocks) <= Completed + 1
            /\ \A k \in 1..Completed : blocks[k] \in PossibleBlocks(succ[k].url)
            /\ pc = "loop" => Completed = Len(succ)

\* three results, the second failed: the two blocks are those of the first
\* and of the third, in that order
C6_Witness ==
    /\ pc = "loop"
    /\ Len(consumed) = 3
    /\ consumed[1].url = UrlAPage
    /\ ~consumed[2].success
    /\ consumed[3].url = UrlA
    /\ Len(Blocks) = 2
    /\ FirstLine(Blocks[1]) = <<"### Summary for ">> \o UrlAPage
    /\ FirstLine(Blocks[2]) = <<"### Summary for ">> \o UrlA

\* C7: pages_crawled starts at 0, never decreases, always equals the number
\* of successful results retrieved, the k-th successful result is saved
\* under sequence number k, and when the sequence is exhausted the last line
\* but one of the log reports the number of successful results.
C7_CounterCountsSuccesses ==
    /\ pages_crawled = 0
    /\ [][pages_crawled' >= pages_crawled]_vars
    /\ [](pages_crawled = Len(Successes))
    /\ [](pc = "save" => file_path = FilePath(result.url, Len(Successes)))
    /\ [](pc = "done" =>
            /\ log[Len(log) - 1] = TotalPrefix \o Str(Len(Successes))
            /\ \A i \in 1..Len(log) : IsTotalLine(log[i]) => i = Len(log) - 1)

\* a run of three results, two of them successful, has logged its total
C7_Witness ==
    /\ pc = "done"
    /\ Len(consumed) = 3
    /\ ~consumed[1].success
    /\ Len(Successes) = 2
    /\ log[Len(log) - 1] = TotalPrefix \o <<"2">>

\* C8: an I/O failure (writing the header or a page file, reading a page
\* file back, appending a block) ends the run where it happens: from then on
\* no variable changes, so no result is retrieved and nothing is written,
\* and the log never holds the line with the final count.
C8_IOFailureIsFatal ==
    /\ [][exc.type = "OSError" => UNCHANGED vars]_vars
    /\ [](exc.type = "OSError" =>
            /\ pc = "crashed"
            /\ \A i \in 1..Len(log) : ~IsTotalLine(log[i]))
    /\ [][(exc'.type = "OSError" /\ exc.type # "OSError") =>
             /\ pc' = "crashed"
             /\ UNCHANGED <<log, consumed, pages_crawled, summarize_calls>>]_vars

\* the append of the first page's block failed while more results could
\* have followed
C8_Witness ==
    /\ exc = [type |-> "OSError", at |-> "append"]
    /\ Len(consumed) = 1
    /\ pages_crawled = 1
    /\ pc = "crashed"

\* C9 as claimed: without an API key, the first summarization ends the run.
C9_MissingKeyIsFatal ==
    (GROQ_API_KEY = None /\ summarize_calls >= 1) => pc = "crashed"

\* C9 amended: a missing API key is not validated at start-up; it surfaces
\* at every summarization of a successful page as the block "Failed to
\* generate summary: <error text>" for that page, which is appended to
\* summaries.md like any other; it never ends the run.
C9_MissingKeyBecomesFailureBlock ==
    GROQ_API_KEY = None =>
        /\ pc = "crashed" => exc.at \in {"init", "crawl", "loop", "save", "read", "append"}
        /\ pc = "append" => summary = FailureBlock(result.url, MissingKeyError)
        /\ Initialised =>
              \A k \in 1..Completed :
                  Blocks[k] = FailureBlock(Successes[k].url, MissingKeyError)

\* without an API key two pages were processed to the end of the run
C9_Witness ==
    /\ GROQ_API_KEY = None
    /\ pc = "done"
    /\ summarize_calls = 2
    /\ Len(Blocks) = 2
    /\ IsFailureBlock(Blocks[1])
    /\ IsFailureBlock(Blocks[2])

\* filtered and raw Markdown are both empty or absent
NoMarkdown(r) == ~Truthy(r.fit_markdown) /\ ~Truthy(r.raw_markdown)

\* C10: the content saved is the filtered Markdown when it is non-empty and
\* the raw Markdown otherwise; a successful result without any Markdown
\* (both empty or absent) still gets its page file, written with empty
\* content, and is then summarised and logged like any other page; only an
\* I/O failure keeps it from that.
C10_EmptyPageIsProcessed ==
    /\ (pc \in InIteration \ {"save"}) =>
          fs[file_path] = (IF result.fit_markdown # <<>> /\ result.fit_markdown # None
                           THEN result.fit_markdown
                           ELSE result.raw_markdown)
    /\ (result.success /\ NoMarkdown(result) /\ pc # "save" /\ exc.type # "OSError") =>
          /\ exc.at \notin InIteration
          /\ file_path \in DOMAIN fs
          /\ fs[file_path] = <<>>
          /\ pc \notin InIteration =>
                /\ summarize_calls = Len(Successes)
                /\ \E i \in 1..Len(log) :
                      log[i] = <<"[OK] Crawled: ">> \o result.url \o <<" (Depth: ">>
                                 \o Str(result.depth) \o <<", Markdown Length: ">>
                                 \o <<"0">> \o <<")">>

====
